---- MODULE Spec2Model ----
(***************************************************************************)
(* url-parser: the bracket-aware URL scanner (parseUrls) and the           *)
(* rate-limited, deduplicating fetch loop of main (file mode and stdin     *)
(* mode).  Text is a sequence of one-character strings.  Time is counted   *)
(* in whole seconds.                                                       *)
(***************************************************************************)
EXTENDS Integers, Sequences, FiniteSets, TLC

VARIABLES
    text,       \* parseUrls: the argument being scanned
    i,          \* parseUrls: loop index (1-based; Len(text)+1 when the loop is over)
    depth,      \* parseUrls: bracket nesting depth
    buffer,     \* parseUrls: flattened text of the open outermost group
    lastChar,   \* parseUrls: the previous character ("" before the first)
    results,    \* parseUrls: candidates emitted so far
    mode,       \* main: "file" (an argument is given) or "stdin"
    pos,        \* stdin: number of characters of text delivered by data events
    stdinBuffer,\* stdin: main's buffer of text not yet cut off
    seen,       \* main: the set of URLs already admitted
    queue,      \* stdin: the FIFO queue; file: the uniqueUrls still to be visited
    processing, \* stdin: a drain loop is running
    ended,      \* stdin: the end event has been handled
    pc,         \* where main / the drain loop is suspended
    cur,        \* the URL processUrl is working on
    timer,      \* seconds left of the pending sleep()
    exit,       \* "running", "exit0" (exit code 0) or "crash" (uncaught rejection)
    out,        \* records written by console.log, in order
    errs,       \* diagnostics written by console.error, in order
    discovered, \* history: candidates returned by the calls of parseUrls, in order
    admitted,   \* history: URLs that passed the seen filter, in order
    gets,       \* history: the GET attempts started, in order, with their results
    done,       \* history: URLs whose processUrl call is over, with the outcome
    sinceGet,   \* seconds since the last GET was started, counted up to RATE_DELAY
    sinceFail,  \* seconds since a first GET last failed, counted up to RETRY_DELAY
    secret      \* main: IM_SECRET as read at the start ("" when it is not set)

scanVars == <<text, i, depth, buffer, lastChar, results>>

mainVars == <<mode, pos, stdinBuffer, seen, queue, processing, ended, pc, cur,
              timer, exit, out, errs, discovered, admitted, gets, done, sinceGet,
              sinceFail, secret>>

vars == <<text, i, depth, buffer, lastChar, results,
          mode, pos, stdinBuffer, seen, queue, processing, ended, pc, cur,
          timer, exit, out, errs, discovered, admitted, gets, done, sinceGet,
          sinceFail, secret>>

----------------------------------------------------------------------------
(* Bounds and input alphabet *)

MaxPieces == 6

MaxGroups == 2

\* sleep(1000) between URLs and sleep(60_000) before the retry, in seconds
RATE_DELAY == 1

RETRY_DELAY == 60

RECURSIVE Concat(_)
Concat(ps) == IF ps = <<>> THEN <<>> ELSE Head(ps) \o Concat(Tail(ps))

\* the two URL tokens of the inputs: "www.a" and "HTTP://b"
UrlA == <<"w", "w", "w", ".", "a">>

UrlB == <<"H", "T", "T", "P", ":", "/", "/", "b">>

\* the pieces texts are put together from; HTTP://b comes after a blank
Pieces == { <<"[">>, <<"]">>, <<"\\">>, UrlA, <<" ">> \o UrlB }

ScanTexts ==
    { Concat(ps) : ps \in UNION { [1..n -> Pieces] : n \in 0..MaxPieces } }

UrlC == <<"w", "w", "w", ".", "c">>

\* the inputs of main are put together from whole groups:
\* "[www.a]", "[ HTTP://b]" and "[[]www.c]"
Groups ==
    { <<"[">> \o UrlA \o <<"]">>,
      <<"[", " ">> \o UrlB \o <<"]">>,
      <<"[", "[", "]">> \o UrlC \o <<"]">> }

\* www.a written with its scheme: "https://www.a"
UrlAs == <<"h", "t", "t", "p", "s", ":", "/", "/">> \o UrlA

\* one more input, with the same address written without and with its
\* scheme: "[www.a][https://www.a]"
SchemeText == <<"[">> \o UrlA \o <<"]", "[">> \o UrlAs \o <<"]">>

MainTexts ==
    { Concat(gs) : gs \in UNION { [1..n -> Groups] : n \in 0..MaxGroups } }
        \cup { SchemeText }

----------------------------------------------------------------------------
(* urlRegex = /(?:https?:\/\/|www\.)[^\s\[\]]+/gi *)

Lower(c) ==
    CASE c = "H" -> "h"
      [] c = "T" -> "t"
      [] c = "P" -> "p"
      [] c = "S" -> "s"
      [] c = "W" -> "w"
      [] OTHER -> c

IsSpace(c) == c \in {" ", "\t", "\n", "\r"}

\* the class [^\s\[\]]
IsUrlChar(c) == ~IsSpace(c) /\ c # "[" /\ c # "]"

\* the literal lit occurs in s at position p, ignoring case (flag i)
LitAt(s, p, lit) ==
    /\ p + Len(lit) - 1 <= Len(s)
    /\ \A k \in 1..Len(lit) : Lower(s[p + k - 1]) = lit[k]

\* length of the alternation (?:https?:\/\/|www\.) matched at p, 0 if none
PrefixLen(s, p) ==
    IF LitAt(s, p, <<"h", "t", "t", "p", "s", ":", "/", "/">>) THEN 8
    ELSE IF LitAt(s, p, <<"h", "t", "t", "p", ":", "/", "/">>) THEN 7
    ELSE IF LitAt(s, p, <<"w", "w", "w", ".">>) THEN 4
    ELSE 0

\* last index of the greedy run [^\s\[\]]+ that starts at q (q - 1 if empty)
RECURSIVE RunEnd(_, _)
RunEnd(s, q) ==
    IF q <= Len(s) /\ IsUrlChar(s[q]) THEN RunEnd(s, q + 1) ELSE q - 1

\* end index of the match of urlRegex anchored at p, 0 if it does not match
MatchEnd(s, p) ==
    LET n == PrefixLen(s, p)
        e == RunEnd(s, p + n)
    IN  IF n > 0 /\ e >= p + n THEN e ELSE 0

\* a slip: the first match is kept instead of the last
RECURSIVE LastUrl_First(_, _, _)
LastUrl_First(s, p, last) ==
    IF p > Len(s) THEN last
    ELSE LET e == MatchEnd(s, p)
         IN  IF e > 0
             THEN LastUrl_First(s, e + 1, IF last = <<>> THEN SubSeq(s, p, e) ELSE last)
             ELSE LastUrl_First(s, p + 1, last)

\* while ((match = urlRegex.exec(buffer)) !== null) last = match[0];
\* p is urlRegex.lastIndex (1-based), last is <<>> for null
RECURSIVE LastUrl(_, _, _)
LastUrl(s, p, last) ==
    IF p > Len(s) THEN last
    ELSE LET e == MatchEnd(s, p)
         IN  IF e > 0
             THEN LastUrl(s, e + 1, SubSeq(s, p, e))
             ELSE LastUrl(s, p + 1, last)

----------------------------------------------------------------------------
(* parseUrls: one iteration of the for loop on the scanner state st *)

\* a slip: only an opening bracket counts as escaped
isEscapedBracket_OpenOnly(ch, prev) == ch = "[" /\ prev = "\\"

isEscapedBracket(ch, prev) == (ch = "[" \/ ch = "]") /\ prev = "\\"

\* a slip: the buffer is not reset when an outermost group opens
BufferAtOpen_Keep(d, buf) == buf

\* if (depth === 1) buffer = "";   (d is the depth after depth++)
BufferAtOpen(d, buf) == IF d = 1 THEN <<>> ELSE buf

\* a slip: every closing bracket inside a group emits
ClosesOutermost_Any(d) == TRUE

\* if (depth === 0) ...            (d is the depth after depth--)
ClosesOutermost(d) == d = 0

\* a slip: a closing bracket lowers the depth also at depth 0
CanClose_Always(d) == TRUE

\* if (depth > 0) { depth--; ... }
CanClose(d) == d > 0

ScanChar(st, ch) ==
    LET esc == isEscapedBracket(ch, st.lastChar)
    IN  IF ch = "[" /\ ~esc
        THEN [st EXCEPT !.depth = st.depth + 1,
                        !.buffer = BufferAtOpen(st.depth + 1, st.buffer),
                        !.lastChar = ch]
        ELSE IF ch = "]" /\ ~esc
        THEN IF CanClose(st.depth)
             THEN IF ClosesOutermost(st.depth - 1)
                  THEN LET last == LastUrl(st.buffer, 1, <<>>)
                       IN  [st EXCEPT !.depth = st.depth - 1,
                                      !.results = IF last # <<>>
                                                  THEN Append(st.results, last)
                                                  ELSE st.results,
                                      !.lastChar = ch]
                  ELSE [st EXCEPT !.depth = st.depth - 1, !.lastChar = ch]
             ELSE [st EXCEPT !.lastChar = ch]
        ELSE IF st.depth >= 1 /\ (esc \/ (ch # "[" /\ ch # "]"))
             THEN [st EXCEPT !.buffer = Append(st.buffer, ch), !.lastChar = ch]
             ELSE [st EXCEPT !.lastChar = ch]

ScanStart == [depth |-> 0, buffer |-> <<>>, lastChar |-> "", results |-> <<>>]

\* the for loop from index k on, in scanner state st (the test nx = nx only
\* makes TLC compute nx before it goes on, which keeps its stack shallow)
RECURSIVE ScanFrom(_, _, _)
ScanFrom(st, s, k) ==
    IF k > Len(s) THEN st
    ELSE LET nx == ScanChar(st, s[k])
         IN  IF nx = nx THEN ScanFrom(nx, s, k + 1) ELSE nx

parseUrls(s) == ScanFrom(ScanStart, s, 1).results

----------------------------------------------------------------------------
(* The scanner run step by step on one text *)

\* main has not been started
MainIdle ==
    /\ mode = "file" /\ pos = 0 /\ stdinBuffer = <<>> /\ seen = {}
    /\ queue = <<>> /\ processing = FALSE /\ ended = FALSE
    /\ pc = "start" /\ cur = <<>> /\ timer = 0 /\ exit = "running"
    /\ out = <<>> /\ errs = <<>> /\ discovered = <<>> /\ admitted = <<>>
    /\ gets = <<>> /\ done = <<>> /\ sinceGet = 0 /\ sinceFail = RETRY_DELAY
    /\ secret = <<>>

ScanIdle ==
    /\ i = 1
    /\ depth = ScanStart.depth
    /\ buffer = ScanStart.buffer
    /\ lastChar = ScanStart.lastChar
    /\ results = ScanStart.results

ScanInit ==
    /\ text \in ScanTexts
    /\ ScanIdle
    /\ MainIdle

ScanStep ==
    /\ i <= Len(text)
    /\ LET st == ScanChar([depth |-> depth, buffer |-> buffer,
                           lastChar |-> lastChar, results |-> results], text[i])
       IN  /\ depth' = st.depth
           /\ buffer' = st.buffer
           /\ lastChar' = st.lastChar
           /\ results' = st.results
    /\ i' = i + 1
    /\ UNCHANGED text
    /\ UNCHANGED mainVars

ScanNext == ScanStep

ScanSpec == ScanInit /\ [][ScanNext]_vars

scanDone == i > Len(text)

----------------------------------------------------------------------------
(* utils: addProtocol *)

\* /^https?:\/\//i.test(url)
hasProtocol(url) ==
    \/ LitAt(url, 1, <<"h", "t", "t", "p", "s", ":", "/", "/">>)
    \/ LitAt(url, 1, <<"h", "t", "t", "p", ":", "/", "/">>)

addProtocol(url) ==
    IF ~hasProtocol(url)
    THEN <<"h", "t", "t", "p", "s", ":", "/", "/">> \o url
    ELSE url

----------------------------------------------------------------------------
(* utils: extractTitle, extractFirstEmail, hashEmail; the record built by  *)
(* processUrl.  A page is a sequence of tokens: the tags "<title>" and     *)
(* "</title>", a blank, the word "T" and the address "e@x.io".  A value    *)
(* that may be undefined is a set with no element or with one.             *)

IsTag(t) == t \in {"<title>", "</title>"}

\* String.prototype.trim
RECURSIVE trimStart(_)
trimStart(s) == IF s # <<>> /\ IsSpace(Head(s)) THEN trimStart(Tail(s)) ELSE s

RECURSIVE trimEnd(_)
trimEnd(s) ==
    IF s # <<>> /\ IsSpace(s[Len(s)]) THEN trimEnd(SubSeq(s, 1, Len(s) - 1)) ELSE s

trim(s) == trimEnd(trimStart(s))

\* the "</title>" that ends the run [^<]* starting at q, 0 if there is none
RECURSIVE titleEnd(_, _)
titleEnd(html, q) ==
    IF q > Len(html) THEN 0
    ELSE IF html[q] = "</title>" THEN q
    ELSE IF IsTag(html[q]) THEN 0
    ELSE titleEnd(html, q + 1)

\* the first match of the pattern at or after p, trimmed; {} for undefined
RECURSIVE titleFrom(_, _)
titleFrom(html, p) ==
    IF p > Len(html) THEN {}
    ELSE IF html[p] = "<title>" /\ titleEnd(html, p + 1) > 0
         THEN { trim(SubSeq(html, p + 1, titleEnd(html, p + 1) - 1)) }
         ELSE titleFrom(html, p + 1)

\* html.match(/<title[^>]*>([^<]*)<\/title>/i)?.[1]?.trim()
extractTitle(html) == titleFrom(html, 1)

\* the tokens the pattern [A-Z0-9._%+-]+@[A-Z0-9.-]+\.[A-Z]{2,} matches
IsEmail(t) == t = "e@x.io"

\* html.match(/[A-Z0-9._%+-]+@[A-Z0-9.-]+\.[A-Z]{2,}/i): the first match
extractFirstEmail(html) ==
    LET at == { p \in 1..Len(html) : IsEmail(html[p]) }
    IN  IF at = {} THEN {}
        ELSE { <<html[CHOOSE x \in at : \A y \in at : x <= y]>> }

\* crypto.createHmac("sha256", secret).update(email).digest("hex")
hashEmail(email, sec) == <<"hmac-sha256">> \o sec \o email

\* a string is truthy when it is defined and not empty
Truthy(v) == v # {} /\ v # {<<>>}

TheValue(v) == CHOOSE x \in v : TRUE

\* const output = { url }; if (title) ...; if (email && secret) ...
output(url, html, sec) ==
    LET title == extractTitle(html)
        email == extractFirstEmail(html)
        keys == {"url"}
                  \cup (IF Truthy(title) THEN {"title"} ELSE {})
                  \cup (IF Truthy(email) /\ sec # <<>> THEN {"email"} ELSE {})
    IN  [f \in keys |->
            CASE f = "url" -> url
              [] f = "title" -> TheValue(title)
              [] f = "email" -> hashEmail(TheValue(email), sec)]

\* IM_SECRET: not set, or set
Secrets == { <<>>, <<"s">> }

\* the body the server at each address answers with
body(target) ==
    CASE target = addProtocol(UrlA) ->
             <<"<title>", " ", "T", " ", "</title>", "e@x.io">>
      [] target = addProtocol(UrlB) -> <<"<title>", " ", "</title>">>
      [] OTHER -> <<"e@x.io">>

\* the candidates of the inputs
Candidates == {UrlA, UrlB, UrlC, UrlAs}

\* what processUrl prints for each candidate once its body is read, under
\* each secret
records ==
    [u \in Candidates, sec \in Secrets |-> output(u, body(addProtocol(u)), sec)]

----------------------------------------------------------------------------
(* main.  The operators below work on a record st of main's state and run  *)
(* the code from one suspension point (await) or event to the next.        *)

State ==
    [seen |-> seen, queue |-> queue, processing |-> processing, ended |-> ended,
     pc |-> pc, cur |-> cur, timer |-> timer, exit |-> exit, out |-> out,
     errs |-> errs, admitted |-> admitted, gets |-> gets, done |-> done,
     sinceGet |-> sinceGet, sinceFail |-> sinceFail]

Commit(st) ==
    /\ seen' = st.seen /\ queue' = st.queue /\ processing' = st.processing
    /\ ended' = st.ended /\ pc' = st.pc /\ cur' = st.cur /\ timer' = st.timer
    /\ exit' = st.exit /\ out' = st.out /\ errs' = st.errs
    /\ admitted' = st.admitted /\ gets' = st.gets /\ done' = st.done
    /\ sinceGet' = st.sinceGet /\ sinceFail' = st.sinceFail

\* fetch(addProtocol(url)): the n-th GET of the current URL is sent
startFetch(st, n) ==
    [st EXCEPT !.gets = Append(@, [url |-> st.cur, target |-> addProtocol(st.cur),
                                   attempt |-> n, res |-> "pending"]),
               !.sinceGet = 0,
               !.pc = IF n = 1 THEN "fetch1" ELSE "fetch2"]

\* processUrl(url) up to its first await: fetchWithRetry sends the first GET
processUrl(st, url) == startFetch([st EXCEPT !.cur = url], 1)

\* the response of the pending GET is recorded in the history
answered(st, r) == [st EXCEPT !.gets[Len(st.gets)].res = r]

\* processUrl is over with outcome o
finished(st, o) == [st EXCEPT !.done = Append(@, [url |-> st.cur, outcome |-> o])]

\* a slip: the retry waits no longer than the pause between URLs
sleepBeforeRetry_Short(st) ==
    [st EXCEPT !.pc = "retrySleep", !.timer = RATE_DELAY, !.sinceFail = 0]

\* catch (err) { await sleep(60_000); ... } after the first GET failed
sleepBeforeRetry(st) ==
    [st EXCEPT !.pc = "retrySleep", !.timer = RETRY_DELAY, !.sinceFail = 0]

\* a slip: the pause between URLs is left out
sleepAfterUrl_None(st) == [st EXCEPT !.pc = "rateSleep", !.timer = 0]

\* await sleep(1000) after processUrl
sleepAfterUrl(st) == [st EXCEPT !.pc = "rateSleep", !.timer = RATE_DELAY]

\* a slip: the newest entry is taken instead of the oldest
shift_Newest(q) == [next |-> q[Len(q)], rest |-> SubSeq(q, 1, Len(q) - 1)]

\* queue.shift() / the next element of for (const url of uniqueUrls)
shift(q) == [next |-> Head(q), rest |-> Tail(q)]

\* drain's finally block: if (ended && queue.length === 0) process.exit(0)
finallyExits(st) == st.ended /\ Len(st.queue) = 0

\* a slip: the end handler does not look at the processing flag
endExits_NoFlag(st) == Len(st.queue) = 0

\* the end handler: if (!processing && queue.length === 0) process.exit(0)
endExits(st) == ~st.processing /\ Len(st.queue) = 0

\* the drain loop from while (queue.length > 0) to its next await
drainLoop(st) ==
    IF Len(st.queue) > 0
    THEN processUrl([st EXCEPT !.queue = shift(st.queue).rest], shift(st.queue).next)
    ELSE [st EXCEPT !.processing = FALSE,
                    !.pc = "idle",
                    !.exit = IF finallyExits(st) THEN "exit0" ELSE @]

\* a slip: drain does not look at the processing flag
drain_NoGuard(st) == drainLoop([st EXCEPT !.processing = TRUE])

\* drain()
drain(st) ==
    IF st.processing THEN st ELSE drainLoop([st EXCEPT !.processing = TRUE])

\* a slip: enqueue only appends and leaves the worker alone
enqueue_AppendOnly(st, u) == [st EXCEPT !.queue = Append(@, u)]

\* enqueue(u): queue.push(u); void drain();
enqueue(st, u) == drain([st EXCEPT !.queue = Append(@, u)])

\* a slip: the seen set is not consulted
isSeen_Never(seenSet, u) == FALSE

\* seen.has(u)
isSeen(seenSet, u) == u \in seenSet

\* the body of for (const url of urls) in the data handler
admitStdin(st, u) ==
    IF ~isSeen(st.seen, u)
    THEN enqueue([st EXCEPT !.seen = @ \cup {u}, !.admitted = Append(@, u)], u)
    ELSE st

RECURSIVE admitAllStdin(_, _)
admitAllStdin(st, urls) ==
    IF urls = <<>> THEN st
    ELSE admitAllStdin(admitStdin(st, Head(urls)), Tail(urls))

\* urls.filter((u) => { if (seen.has(u)) return false; seen.add(u); return true; })
RECURSIVE filterUnique(_, _)
filterUnique(st, urls) ==
    IF urls = <<>> THEN st
    ELSE IF isSeen(st.seen, Head(urls))
         THEN filterUnique(st, Tail(urls))
         ELSE filterUnique([st EXCEPT !.seen = @ \cup {Head(urls)},
                                      !.admitted = Append(@, Head(urls)),
                                      !.queue = Append(@, Head(urls))],
                           Tail(urls))

\* the for loop of file mode from its head to its next await; main returns
\* when the list is used up and the process ends with code 0
fileLoop(st) ==
    IF Len(st.queue) > 0
    THEN processUrl([st EXCEPT !.queue = shift(st.queue).rest], shift(st.queue).next)
    ELSE [st EXCEPT !.pc = "returned", !.exit = "exit0"]

\* buffer.lastIndexOf("]"), 0 for -1
RECURSIVE lastIndexOfClose(_, _)
lastIndexOfClose(s, k) ==
    IF k = 0 THEN 0
    ELSE IF s[k] = "]" THEN k ELSE lastIndexOfClose(s, k - 1)

\* if (lastClose !== -1) buffer = buffer.slice(lastClose + 1)
cutBuffer(s) ==
    IF lastIndexOfClose(s, Len(s)) # 0
    THEN SubSeq(s, lastIndexOfClose(s, Len(s)) + 1, Len(s))
    ELSE s

----------------------------------------------------------------------------
(* Actions of main *)

Running == exit = "running"

Init ==
    /\ text \in MainTexts
    /\ ScanIdle
    /\ mode \in {"file", "stdin"}
    /\ pos = 0 /\ stdinBuffer = <<>> /\ seen = {}
    /\ queue = <<>> /\ processing = FALSE /\ ended = FALSE
    /\ pc = "start" /\ cur = <<>> /\ timer = 0 /\ exit = "running"
    /\ out = <<>> /\ errs = <<>> /\ discovered = <<>> /\ admitted = <<>>
    /\ gets = <<>> /\ done = <<>> /\ sinceGet = 0 /\ sinceFail = RETRY_DELAY
    /\ secret \in Secrets

\* file mode: the file is read, parsed and deduplicated, and the loop starts
MainFile ==
    /\ Running /\ pc = "start" /\ mode = "file"
    /\ discovered' = parseUrls(text)
    /\ Commit(fileLoop(filterUnique(State, parseUrls(text))))
    /\ UNCHANGED <<mode, pos, stdinBuffer>>
    /\ UNCHANGED scanVars
    /\ UNCHANGED secret

\* file mode: readFileSync throws; the failure is logged and main returns
MainFileUnreadable ==
    /\ Running /\ pc = "start" /\ mode = "file"
    /\ Commit([State EXCEPT !.errs = Append(@, [kind |-> "read", url |-> <<>>]),
                            !.pc = "returned", !.exit = "exit0"])
    /\ UNCHANGED <<mode, pos, stdinBuffer, discovered>>
    /\ UNCHANGED scanVars
    /\ UNCHANGED secret

\* stdin mode: the handlers are registered and main returns
MainStdin ==
    /\ Running /\ pc = "start" /\ mode = "stdin"
    /\ Commit([State EXCEPT !.pc = "idle"])
    /\ UNCHANGED <<mode, pos, stdinBuffer, discovered>>
    /\ UNCHANGED scanVars
    /\ UNCHANGED secret

\* process.stdin.on("data"): the next n characters of the input arrive
Data ==
    /\ Running /\ mode = "stdin" /\ pc # "start" /\ ~ended
    /\ \E n \in 1..(Len(text) - pos) :
          LET buf == stdinBuffer \o SubSeq(text, pos + 1, pos + n)
              urls == parseUrls(buf)
          IN  /\ pos' = pos + n
              /\ discovered' = discovered \o urls
              /\ Commit(admitAllStdin(State, urls))
              /\ stdinBuffer' = cutBuffer(buf)
    /\ UNCHANGED mode
    /\ UNCHANGED scanVars
    /\ UNCHANGED secret

\* process.stdin.on("end"): the whole input has been delivered
End ==
    /\ Running /\ mode = "stdin" /\ pc # "start" /\ ~ended
    /\ pos = Len(text)
    /\ Commit([State EXCEPT !.ended = TRUE,
                            !.exit = IF endExits(State) THEN "exit0" ELSE @])
    /\ UNCHANGED <<mode, pos, stdinBuffer, discovered>>
    /\ UNCHANGED scanVars
    /\ UNCHANGED secret

\* the pending GET answers with an OK status: processUrl goes on to res.text()
GetOk ==
    /\ Running /\ pc \in {"fetch1", "fetch2"}
    /\ Commit([answered(State, "ok") EXCEPT !.pc = "text"])
    /\ UNCHANGED <<mode, pos, stdinBuffer, discovered>>
    /\ UNCHANGED scanVars
    /\ UNCHANGED secret

\* the pending GET fails (network error or non-OK status)
GetFail ==
    /\ Running /\ pc \in {"fetch1", "fetch2"}
    /\ IF pc = "fetch1"
       THEN Commit(sleepBeforeRetry(answered(State, "fail")))
       ELSE Commit(sleepAfterUrl(finished(
                [answered(State, "fail") EXCEPT
                    !.errs = Append(@, [kind |-> "fetch", url |-> cur])],
                "failed")))
    /\ UNCHANGED <<mode, pos, stdinBuffer, discovered>>
    /\ UNCHANGED scanVars
    /\ UNCHANGED secret

\* sleep(60_000) is over: the second GET is sent
Retry ==
    /\ Running /\ pc = "retrySleep" /\ timer = 0
    /\ Commit(startFetch(State, 2))
    /\ UNCHANGED <<mode, pos, stdinBuffer, discovered>>
    /\ UNCHANGED scanVars
    /\ UNCHANGED secret

\* res.text() resolves: the record is printed and processUrl returns
TextOk ==
    /\ Running /\ pc = "text"
    /\ Commit(sleepAfterUrl(finished(
            [State EXCEPT !.out = Append(@, records[cur, secret])], "record")))
    /\ UNCHANGED <<mode, pos, stdinBuffer, discovered>>
    /\ UNCHANGED scanVars
    /\ UNCHANGED secret

\* res.text() rejects: processUrl throws.  stdin: drain's finally block runs
\* and the rejection of the promise of void drain() is uncaught; file: main
\* rejects.  An uncaught rejection ends the process.
TextThrow ==
    /\ Running /\ pc = "text"
    /\ IF mode = "stdin"
       THEN Commit([finished(State, "threw") EXCEPT
                       !.processing = FALSE,
                       !.pc = "thrown",
                       !.exit = IF finallyExits(State) THEN "exit0" ELSE "crash"])
       ELSE Commit([finished(State, "threw") EXCEPT !.pc = "thrown", !.exit = "crash"])
    /\ UNCHANGED <<mode, pos, stdinBuffer, discovered>>
    /\ UNCHANGED scanVars
    /\ UNCHANGED secret

\* sleep(1000) is over: the loop goes to its next round
NextUrl ==
    /\ Running /\ pc = "rateSleep" /\ timer = 0
    /\ IF mode = "stdin" THEN Commit(drainLoop(State)) ELSE Commit(fileLoop(State))
    /\ UNCHANGED <<mode, pos, stdinBuffer, discovered>>
    /\ UNCHANGED scanVars
    /\ UNCHANGED secret

\* one second passes
Tick ==
    /\ Running /\ pc # "start"
    /\ timer' = IF timer > 0 THEN timer - 1 ELSE 0
    /\ sinceGet' = IF sinceGet < RATE_DELAY THEN sinceGet + 1 ELSE sinceGet
    /\ sinceFail' = IF sinceFail < RETRY_DELAY THEN sinceFail + 1 ELSE sinceFail
    /\ UNCHANGED <<mode, pos, stdinBuffer, seen, queue, processing, ended, pc, cur,
                   exit, out, errs, discovered, admitted, gets, done>>
    /\ UNCHANGED scanVars
    /\ UNCHANGED secret

Next ==
    \/ MainFile \/ MainFileUnreadable \/ MainStdin
    \/ Data \/ End
    \/ GetOk \/ GetFail \/ Retry \/ TextOk \/ TextThrow \/ NextUrl
    \/ Tick

Spec == Init /\ [][Next]_vars

\* what the program does next on its own in stdin mode: main registers the
\* handlers, and the continuation of the await that processUrl or the loop
\* is suspended at runs (every GET and every body read ends)
Continue ==
    \/ MainStdin
    \/ GetOk \/ GetFail \/ Retry \/ TextOk \/ TextThrow \/ NextUrl

\* the event loop runs the continuation that is ready, and time passes
FairSpec == Spec /\ WF_vars(Continue) /\ WF_vars(Tick)

----------------------------------------------------------------------------
(* Reference notions used by the properties of the scanner: what a         *)
(* structural bracket, an outermost group, its flattened text and a URL    *)
(* token are, stated on the text itself.                                   *)

IsBracket(c) == c = "[" \/ c = "]"

\* a bracket is structural unless the character before it is a backslash
Structural(s, k) == IsBracket(s[k]) /\ (k = 1 \/ s[k - 1] # "\\")

NoEscapedBracket(s) == \A k \in 1..Len(s) : IsBracket(s[k]) => Structural(s, k)

\* number of c among the first k characters
Count(s, k, c) == Cardinality({j \in 1..k : s[j] = c})

Bal(s, k) == Count(s, k, "[") - Count(s, k, "]")

Balanced(s) == /\ \A k \in 1..Len(s) : Bal(s, k) >= 0
               /\ Bal(s, Len(s)) = 0

\* nesting depth after each character; an unmatched closer at depth 0 is ignored
RECURSIVE DepthsFrom(_, _, _)
DepthsFrom(s, k, d) ==
    IF k > Len(s) THEN <<>>
    ELSE LET nd == IF Structural(s, k)
                   THEN IF s[k] = "[" THEN d + 1
                        ELSE IF d > 0 THEN d - 1 ELSE 0
                   ELSE d
         IN  <<nd>> \o DepthsFrom(s, k + 1, nd)

Depths(s) == DepthsFrom(s, 1, 0)

DepthBefore(ds, k) == IF k = 1 THEN 0 ELSE ds[k - 1]

\* positions of the structural ']' that close an outermost group
Closers(s, ds) ==
    {j \in 1..Len(s) : Structural(s, j) /\ s[j] = "]" /\ DepthBefore(ds, j) = 1}

\* the '[' that opened the outermost group closed at j
OpenerOf(s, ds, j) ==
    CHOOSE k \in 1..(j - 1) :
        /\ Structural(s, k) /\ s[k] = "[" /\ DepthBefore(ds, k) = 0
        /\ \A m \in k..(j - 1) : ds[m] >= 1

RECURSIVE FlatFrom(_, _, _)
FlatFrom(s, k, j) ==
    IF k >= j THEN <<>>
    ELSE IF Structural(s, k) THEN FlatFrom(s, k + 1, j)
    ELSE <<s[k]>> \o FlatFrom(s, k + 1, j)

\* text of the group (k, j) with its structural inner brackets removed
Flat(s, k, j) == FlatFrom(s, k + 1, j)

UrlPrefixes ==
    { <<"h", "t", "t", "p", ":", "/", "/">>,
      <<"h", "t", "t", "p", "s", ":", "/", "/">>,
      <<"w", "w", "w", ".">> }

\* a URL token can start at p: a prefix followed by one more token character
TokStart(f, p) ==
    \E lit \in UrlPrefixes :
        /\ p + Len(lit) <= Len(f)
        /\ \A k \in 1..Len(lit) : Lower(f[p + k - 1]) = lit[k]
        /\ IsUrlChar(f[p + Len(lit)])

\* <<p, e>>: the URL tokens of f, each the rest of a word from its first start
Tokens(f) ==
    { t \in (1..Len(f)) \X (1..Len(f)) :
        /\ t[1] <= t[2]
        /\ TokStart(f, t[1])
        /\ \A k \in t[1]..t[2] : IsUrlChar(f[k])
        /\ t[2] = Len(f) \/ ~IsUrlChar(f[t[2] + 1])
        /\ \A q \in 1..(t[1] - 1) :
              TokStart(f, q) => \E k \in q..t[1] : ~IsUrlChar(f[k]) }

TokenStrings(f) == { SubSeq(f, t[1], t[2]) : t \in Tokens(f) }

LastToken(f) ==
    LET t == CHOOSE u \in Tokens(f) : \A v \in Tokens(f) : v[1] <= u[1]
    IN  SubSeq(f, t[1], t[2])

\* the n-th smallest element of a set of numbers
Nth(S, n) == CHOOSE x \in S : Cardinality({y \in S : y < x}) = n - 1

----------------------------------------------------------------------------
(* Properties of parseUrls *)

\* C1: for a text whose brackets are balanced and none escaped, parseUrls
\* emits one candidate per outermost group that contains a URL token and
\* none for the others, in the order of the groups' closing brackets.
C1_OnePerGroup ==
    (scanDone /\ Balanced(text) /\ NoEscapedBracket(text)) =>
        LET opens == {k \in 1..Len(text) : text[k] = "[" /\ Bal(text, k - 1) = 0}
            close(k) == CHOOSE j \in (k + 1)..Len(text) :
                            /\ Bal(text, j) = 0
                            /\ \A m \in k..(j - 1) : Bal(text, m) > 0
            inner(k) == SelectSeq(SubSeq(text, k + 1, close(k) - 1),
                                  LAMBDA c : ~IsBracket(c))
            withUrl == {k \in opens : \E p \in 1..Len(inner(k)) : TokStart(inner(k), p)}
        IN  /\ Len(results) = Cardinality(withUrl)
            /\ \A n \in 1..Len(results) :
                   results[n] \in TokenStrings(inner(Nth(withUrl, n)))

\* two groups with a URL each: "[www.a][ HTTP://b]"
C1_Witness ==
    /\ scanDone /\ Balanced(text) /\ NoEscapedBracket(text)
    /\ results = <<UrlA, UrlB>>

\* C2: the candidate emitted for an outermost group is the last URL token of
\* its flattened text (structural inner brackets removed, inner text kept),
\* so a URL of a nested group is not emitted on its own and loses to a later
\* URL of the outer group.
C2_LastUrlWins ==
    scanDone =>
        LET ds == Depths(text)
            flat(j) == Flat(text, OpenerOf(text, ds, j), j)
            withUrl == {j \in Closers(text, ds) : Tokens(flat(j)) # {}}
        IN  /\ Len(results) = Cardinality(withUrl)
            /\ \A n \in 1..Len(results) :
                   results[n] = LastToken(flat(Nth(withUrl, n)))

\* "[[www.a] HTTP://b]": the nested www.a loses to HTTP://b
C2_Witness ==
    /\ scanDone
    /\ text = Concat(<< <<"[">>, <<"[">>, UrlA, <<"]">>, <<" ">> \o UrlB, <<"]">> >>)
    /\ results = <<UrlB>>

\* C3: a candidate is emitted only by a structural ']' that takes the depth
\* from 1 to 0, and it is text of the group that bracket closes: URL text at
\* depth 0 is never emitted and a group that is never closed emits nothing.
C3_EmitOnlyAtOutermostClose ==
    [][results' # results =>
          /\ i <= Len(text)
          /\ text[i] = "]" /\ Structural(text, i)
          /\ depth = 1 /\ depth' = 0
          /\ LET ds == Depths(text)
                 f == Flat(text, OpenerOf(text, ds, i), i)
             IN  /\ DepthBefore(ds, i) = 1
                 /\ \E u \in TokenStrings(f) : results' = Append(results, u)
      ]_vars

\* "www.a[www.a": a URL outside every group, then a group never closed
C3_Witness ==
    /\ scanDone
    /\ text = Concat(<<UrlA, <<"[">>, UrlA>>)
    /\ depth = 1
    /\ results = <<>>

\* C4: a bracket right after a backslash never changes the depth and never
\* opens or closes a group; it is appended to the buffer at depth >= 1 and
\* dropped at depth 0.  A text whose every '[' is escaped emits nothing.
C4_EscapedBracketIsLiteral ==
    /\ [][(i <= Len(text) /\ IsBracket(text[i]) /\ ~Structural(text, i)) =>
             /\ depth' = depth
             /\ results' = results
             /\ buffer' = IF depth >= 1 THEN Append(buffer, text[i]) ELSE buffer
         ]_vars
    /\ []((\A k \in 1..Len(text) : text[k] = "[" => ~Structural(text, k))
             => results = <<>>)

\* "\[www.a]": the only '[' is escaped and a structural ']' follows
C4_Witness ==
    /\ scanDone
    /\ text = Concat(<< <<"\\">>, <<"[">>, UrlA, <<"]">> >>)
    /\ results = <<>>

----------------------------------------------------------------------------
(* Reference notions used by the properties of main *)

Range(q) == {q[k] : k \in 1..Len(q)}

Urls(q) == [k \in 1..Len(q) |-> q[k].url]

NoDuplicates(q) == \A j, k \in 1..Len(q) : q[j] = q[k] => j = k

IsPrefix(a, b) == Len(a) <= Len(b) /\ SubSeq(b, 1, Len(a)) = a

\* q without the elements that occurred earlier in q
RECURSIVE FirstOccurrencesFrom(_, _)
FirstOccurrencesFrom(q, k) ==
    IF k > Len(q) THEN <<>>
    ELSE IF \E j \in 1..(k - 1) : q[j] = q[k]
         THEN FirstOccurrencesFrom(q, k + 1)
         ELSE <<q[k]>> \o FirstOccurrencesFrom(q, k + 1)

FirstOccurrences(q) == FirstOccurrencesFrom(q, 1)

\* the URLs whose fetch cycle has started, in the order of their first GET
StartedUrls == Urls(SelectSeq(gets, LAMBDA g : g.attempt = 1))

\* results of the GET attempts of URL u, in order
Attempts(u) ==
    LET mine == SelectSeq(gets, LAMBDA g : g.url = u)
    IN  [k \in 1..Len(mine) |-> mine[k].res]

RecordsOf(u) == Cardinality({k \in 1..Len(out) : out[k].url = u})

FailuresLogged(u) ==
    Cardinality({k \in 1..Len(errs) : errs[k].kind = "fetch" /\ errs[k].url = u})

\* the place of URL u in the order of admission
AdmittedAt(u) == CHOOSE p \in 1..Len(admitted) : admitted[p] = u

\* processUrl is over for u with a record written or the failure logged
Terminal(u) ==
    \E k \in 1..Len(done) : done[k].url = u /\ done[k].outcome \in {"record", "failed"}

----------------------------------------------------------------------------
(* Properties of main *)

\* C5: in file mode and in stdin mode each distinct candidate is admitted
\* once, at its first occurrence: it is put into seen and enqueued once,
\* seen never loses a URL, and the admitted URLs keep first-occurrence order.
C5_AdmittedOnce ==
    /\ [](/\ NoDuplicates(admitted)
          /\ admitted = FirstOccurrences(discovered)
          /\ seen = Range(admitted)
          /\ admitted = StartedUrls \o queue)
    /\ [][seen \subseteq seen' /\ IsPrefix(admitted, admitted')]_vars

\* stdin "[www.a][www.a]": www.a is found twice and admitted once
C5_Witness ==
    /\ mode = "stdin"
    /\ discovered = <<UrlA, UrlA>>
    /\ admitted = <<UrlA>>
    /\ seen = {UrlA}

\* C6: no GET (first attempt or retry, of any URL) starts less than one
\* second after the GET before it, and the one-second sleep follows every
\* processed URL, whether its record was written or its failure logged.
C6_GetsOneSecondApart ==
    [][/\ Len(gets') > Len(gets) =>
             /\ Len(gets') = Len(gets) + 1
             /\ Len(gets) = 0 \/ sinceGet >= RATE_DELAY
       /\ (Len(out') > Len(out) \/ FailuresLogged(cur) < FailuresLogged(cur)') =>
             /\ pc' = "rateSleep" /\ timer' = RATE_DELAY
      ]_vars

\* stdin: the first URL was retried and the GET of the second URL was sent
C6_Witness ==
    /\ mode = "stdin"
    /\ Len(gets) = 3
    /\ gets[1].res = "fail" /\ gets[2].attempt = 2
    /\ gets[3].url # gets[1].url

\* C7: a URL whose first GET fails and second GET succeeds gets exactly one
\* record; a URL whose GETs both fail gets no record and exactly one
\* diagnostic, and the worker stays alive for the URLs still queued.
C7_RetryOutcome ==
    \A k \in 1..Len(done) :
        LET u == done[k].url
        IN  /\ Attempts(u) = <<"fail", "ok">> => RecordsOf(u) = 1
            /\ Attempts(u) = <<"fail", "fail">> =>
                   /\ RecordsOf(u) = 0
                   /\ FailuresLogged(u) = 1
                   /\ (k = Len(done) /\ Len(queue) > 0) => exit = "running"

\* C8: fetch cycles start in the order of admission, a cycle starts only
\* when every cycle before it is over, and the records are written in the
\* order of admission.
C8_FifoOrder ==
    /\ IsPrefix(StartedUrls, admitted)
    /\ IsPrefix(Urls(done), StartedUrls)
    /\ Len(done) >= Len(StartedUrls) - 1
    /\ \A k \in 1..Len(out) : out[k].url \in Range(Urls(done))
    /\ \A j, k \in 1..Len(out) :
           j < k => AdmittedAt(out[j].url) < AdmittedAt(out[k].url)

\* stdin: two URLs were admitted and the records of both are written
C8_Witness ==
    /\ mode = "stdin"
    /\ Len(admitted) = 2
    /\ Urls(out) = admitted

\* C9: in stdin mode, however the input is split into chunks, the candidates
\* found over all data events are those parseUrls finds in the whole text.
C9_ChunksEqualWhole ==
    (mode = "stdin" /\ pos = Len(text)) => discovered = parseUrls(text)

\* C10: in stdin mode, once the end event is handled the run ends with exit
\* code 0, and it ends only when every admitted URL has its record written
\* or its failure logged.
C10_EndThenDrainThenExit ==
    /\ [](mode = "stdin" /\ ended /\ exit # "running" =>
             /\ exit = "exit0"
             /\ Len(queue) = 0
             /\ \A k \in 1..Len(admitted) : Terminal(admitted[k]))
    /\ (mode = "stdin" /\ ended) ~> (exit = "exit0")

\* a GET of URL u was answered with an OK status
FetchSucceeded(u) == \E k \in 1..Len(gets) : gets[k].url = u /\ gets[k].res = "ok"

\* C11: every fetch cycle one of whose GETs succeeded writes exactly one
\* record; its url is the candidate as extracted, title is there exactly
\* when extractTitle gave a non-empty value, email exactly when an email was
\* found and the secret is not empty, and no field is there without a value.
C11_RecordOfSuccessfulCycle ==
    /\ \A k \in 1..Len(done) :
           FetchSucceeded(done[k].url) => RecordsOf(done[k].url) = 1
    /\ \A k \in 1..Len(out) :
           LET r == out[k]
               html == body(addProtocol(r.url))
           IN  /\ r.url \in Range(discovered) /\ FetchSucceeded(r.url)
               /\ DOMAIN r \subseteq {"url", "title", "email"}
               /\ "title" \in DOMAIN r <=> Truthy(extractTitle(html))
               /\ "email" \in DOMAIN r <=>
                      (extractFirstEmail(html) # {} /\ secret # <<>>)
               /\ \A f \in DOMAIN r : r[f] # <<>>

\* the awaits a drain loop can be suspended at
InLoop == {"fetch1", "fetch2", "retrySleep", "text", "rateSleep"}

\* C12: in stdin mode at most one fetch cycle is in flight: the processing
\* flag is set exactly while the one drain loop is suspended at an await, and
\* processUrl is started for a URL only when the processUrl calls of all
\* earlier URLs are over, either by a new drain loop while none is running
\* or by the running loop once its one-second sleep is over.
C12_OneCycleInFlight ==
    /\ [](mode = "stdin" =>
             /\ processing <=> pc \in InLoop
             /\ Len(StartedUrls) - Len(done) \in {0, 1}
             /\ Len(StartedUrls) - Len(done) = 1 <=> pc \in InLoop \ {"rateSleep"})
    /\ [][(mode = "stdin" /\ Len(StartedUrls') # Len(StartedUrls)) =>
             /\ Len(StartedUrls') = Len(StartedUrls) + 1
             /\ Len(done) = Len(StartedUrls)
             /\ \/ ~processing /\ pc = "idle"
                \/ processing /\ pc = "rateSleep" /\ timer = 0
             /\ processing'
      ]_vars

\* stdin: HTTP://b waits in the queue during the retry wait of www.a
C12_Witness ==
    /\ mode = "stdin"
    /\ processing /\ pc = "retrySleep" /\ timer > 0
    /\ cur = UrlA /\ queue = <<UrlB>>

\* nothing is queued and no processUrl call is under way
NothingLeft == queue = <<>> /\ Len(done) = Len(StartedUrls)

\* C13: in stdin mode the run exits with code 0 only when the end of the
\* input has been seen, the queue is empty and no task is in flight.  The end
\* handler exits exactly when no drain loop runs and the queue is empty, and
\* leaves the process running otherwise; drain's finally block exits exactly
\* when the input has ended and the queue is empty, and otherwise leaves the
\* process running (unless processUrl threw: then the run does not end with
\* code 0).
C13_ExitOnlyWhenDrained ==
    /\ []((mode = "stdin" /\ exit = "exit0") =>
             ended /\ ~processing /\ NothingLeft)
    /\ [][(mode = "stdin" /\ ~ended /\ ended') =>
             /\ exit' = "exit0" <=> (~processing /\ NothingLeft)
             /\ exit' \in {"exit0", "running"}
      ]_vars
    /\ [][(mode = "stdin" /\ processing /\ ~processing') =>
             /\ exit' = "exit0" <=> (ended /\ queue' = <<>>)
             /\ exit' = "crash" =>
                    (Len(done') > Len(done) /\ done'[Len(done')].outcome = "threw")
      ]_vars

\* stdin: the input ended while a GET was pending and nothing was queued
C13_Witness ==
    /\ mode = "stdin"
    /\ ended /\ processing /\ pc = "fetch1" /\ queue = <<>>
    /\ exit = "running"

\* the GETs sent for URL u, in order
GetsOf(u) == SelectSeq(gets, LAMBDA g : g.url = u)

\* C14: a URL gets at most two GETs; the second is sent only after the
\* first failed and not before 60 seconds have passed since that failure;
\* no GET follows a GET that succeeded, or a second GET.
C14_RetryOnceAfterDelay ==
    /\ [](\A u \in Range(admitted) :
             /\ Len(GetsOf(u)) <= 2
             /\ \A k \in 1..Len(GetsOf(u)) : GetsOf(u)[k].attempt = k
             /\ Len(GetsOf(u)) = 2 => GetsOf(u)[1].res = "fail")
    /\ [][(Len(gets') > Len(gets) /\ gets'[Len(gets')].attempt # 1) =>
             /\ gets'[Len(gets')].attempt = 2
             /\ gets # <<>>
             /\ gets[Len(gets)].url = gets'[Len(gets')].url
             /\ gets[Len(gets)].attempt = 1 /\ gets[Len(gets)].res = "fail"
             /\ sinceFail >= RETRY_DELAY
      ]_vars

\* the first GET of www.a failed and its second GET has been sent
C14_Witness ==
    /\ Len(gets) = 2 /\ pc = "fetch2"
    /\ gets[1].url = UrlA /\ gets[1].res = "fail"
    /\ gets[2].url = UrlA /\ gets[2].attempt = 2

\* the URLs admitted by the step
NewlyAdmitted == SubSeq(admitted', Len(admitted) + 1, Len(admitted'))

\* C15 as claimed: in stdin mode the URLs a scan admits are all appended to
\* the queue, in emission order, before the GET of any of them is sent, and
\* enqueue starts no GET.
C15_AllQueuedBeforeAnyGet ==
    [][(mode = "stdin" /\ admitted' # admitted) =>
          /\ Len(NewlyAdmitted) >= 2 => queue' = queue \o NewlyAdmitted
          /\ gets' = gets
      ]_vars

\* C15 as amended: in stdin mode the URLs a scan admits are enqueued in
\* emission order.  While a drain loop runs, enqueue only appends and no
\* GET is sent.  While none runs the queue is empty, and enqueue of the first
\* new URL starts the drain loop, which takes that URL off the queue and
\* sends its first GET before the later ones are appended; the later ones
\* are in the queue, in emission order, before any further GET is sent.
C15_FirstStartsOthersQueued ==
    [][(mode = "stdin" /\ admitted' # admitted) =>
          IF processing
          THEN /\ queue' = queue \o NewlyAdmitted
               /\ gets' = gets
          ELSE /\ queue = <<>>
               /\ queue' = Tail(NewlyAdmitted)
               /\ Len(gets') = Len(gets) + 1
               /\ gets'[Len(gets')].url = Head(NewlyAdmitted)
               /\ gets'[Len(gets')].attempt = 1
               /\ processing'
      ]_vars

\* stdin "[www.a][ HTTP://b]" in one chunk: the GET of www.a is pending and
\* HTTP://b is queued
C15_Witness ==
    /\ mode = "stdin"
    /\ pos = Len(text) /\ admitted = <<UrlA, UrlB>>
    /\ Len(gets) = 1 /\ gets[1].url = UrlA /\ gets[1].res = "pending"
    /\ queue = <<UrlB>>
    /\ sinceGet = 0

\* C16: whatever the outcome of a processUrl call, an error after a
\* successful GET included, the worker goes on with the URLs still queued:
\* in stdin mode, once a call is over and URLs are left in the queue, the
\* run is alive and the drain loop is still running.
C16_ErrorsDoNotStopQueue ==
    (mode = "stdin" /\ done # <<>> /\ queue # <<>>) =>
        (exit = "running" /\ processing)

----------------------------------------------------------------------------
(* Further properties of parseUrls *)

\* number of consecutive backslashes that end right before position k
RECURSIVE BackslashesBefore(_, _)
BackslashesBefore(s, k) ==
    IF k > 1 /\ s[k - 1] = "\\" THEN 1 + BackslashesBefore(s, k - 1) ELSE 0

\* C17: a bracket with an even number of backslashes right before it (none,
\* or backslashes that escape each other) is structural: '[' raises the
\* depth by one and ']' lowers it by one unless it is 0 already.
C17_EscapedBackslashDoesNotEscape ==
    [][(i <= Len(text) /\ IsBracket(text[i])
            /\ BackslashesBefore(text, i) % 2 = 0) =>
          depth' = IF text[i] = "[" THEN depth + 1
                   ELSE IF depth > 0 THEN depth - 1 ELSE 0
      ]_vars

\* s without its structural ']' that are met at depth 0
RECURSIVE StripFrom(_, _, _)
StripFrom(s, ds, k) ==
    IF k > Len(s) THEN <<>>
    ELSE IF s[k] = "]" /\ Structural(s, k) /\ DepthBefore(ds, k) = 0
         THEN StripFrom(s, ds, k + 1)
         ELSE <<s[k]>> \o StripFrom(s, ds, k + 1)

StripUnmatched(s) == StripFrom(s, Depths(s), 1)

\* C18: the depth is never negative; a structural ']' met at depth 0 leaves
\* depth, buffer and results as they are; and the output for a text is the
\* output for the text without its unmatched ']' at depth 0.
C18_UnmatchedCloseIsNoOp ==
    /\ [](depth >= 0)
    /\ [][(i <= Len(text) /\ text[i] = "]" /\ Structural(text, i) /\ depth = 0) =>
             (depth' = 0 /\ buffer' = buffer /\ results' = results)
      ]_vars
    /\ [](scanDone => results = parseUrls(StripUnmatched(text)))

\* "][www.a]]": an unmatched ']' before the group and one after it
C18_Witness ==
    /\ scanDone
    /\ text = Concat(<< <<"]">>, <<"[">>, UrlA, <<"]">>, <<"]">> >>)
    /\ depth = 0
    /\ results = <<UrlA>>

----------------------------------------------------------------------------
(* Further properties of main *)

\* the first GETs of the fetch cycles, in order
Cycles == SelectSeq(gets, LAMBDA g : g.attempt = 1)

\* C19: no two fetch cycles of a run send their GETs to the same target
\* address, the target being the candidate after addProtocol.
C19_OneCyclePerTarget ==
    \A j, k \in 1..Len(Cycles) :
        addProtocol(Cycles[j].url) = addProtocol(Cycles[k].url) => j = k

\* C20: in stdin mode, in every state where control is back at the event
\* loop (the handlers are registered and the process has not ended), a
\* cleared processing flag means an empty queue: no URL is left in the queue
\* without a drain loop that will reach it.
C20_IdleMeansEmptyQueue ==
    (mode = "stdin" /\ pc # "start" /\ exit = "running" /\ ~processing) =>
        queue = <<>>

\* stdin: the drain loop has ended after one URL while input is still to come
C20_Witness ==
    /\ mode = "stdin" /\ exit = "running"
    /\ ~processing /\ pc = "idle"
    /\ Len(done) = 1 /\ queue = <<>>
    /\ pos < Len(text)

====
